---- MODULE Spec2Model ----
(***************************************************************************)
(* GlusterFS block driver of QEMU (block/gluster.c).                       *)
(*                                                                         *)
(* Two state machines share this module:                                   *)
(*   Spec      the AIO bridge: coroutines submitting asynchronous I/O,     *)
(*             the library's completion callback on a foreign thread and   *)
(*             the wake bottom-half on the host I/O thread;                *)
(*   SpecLife  the synchronous entry points open, create and close, one    *)
(*             library call per step, with the thread's errno;             *)
(*   SpecParse the same, remembering the location that was parsed.         *)
(***************************************************************************)
EXTENDS Integers, Sequences, FiniteSets, TLC

\* ---------------------------------------------------------------- bounds
NumOps == 2          \* coroutines doing I/O on the one image instance
MaxSectors == 1      \* largest nb_sectors of a request
MaxPathLen == 4      \* longest uri->path given to the parser

\* ------------------------------------------------------ program constants
EIO == 5
EINVAL == 22
BDRV_SECTOR_SIZE == 512

Ops == 1..NumOps
NULL == 0

\* Values errno can hold: 0 (never set) and some error numbers.
ErrnoValues == {2, EIO, EINVAL}
Errnos == {0} \cup ErrnoValues

\* A failing library call leaves an error number in errno, or (the C library
\* contract does not force it) leaves errno as it was.
ErrnoAfterFailure(e) == {e} \cup ErrnoValues

VARIABLES
    \* ---- AIO bridge
    acb,        \* acb[i]: the GlusterAIOCB of operation i
    co,         \* co[i]: position of coroutine i in its co_* function
    lret,       \* lret[i]: the local `ret` of coroutine i
    cb,         \* cb[i]: position of gluster_finish_aiocb for record i
    cret,       \* cret[i]: the value the library delivered for record i
    bhs,        \* bhs[b]: state of bottom-half handle b
    hostCo,     \* the coroutine running on the host I/O thread, or NULL
    inBH,       \* the record whose bottom-half is running on the host thread
    retval,     \* retval[i]: what the operation returned
    \* ---- history of the AIO bridge
    freedBy,    \* freedBy[i]: who called g_slice_free on record i, in order
    enteredBy,  \* enteredBy[i]: who called qemu_coroutine_enter on i, in order
    readAt,     \* readAt[i]: what record the post-yield read used
    misuse,     \* accesses to a freed record, entries of a running coroutine
    \* ---- open and create
    pc,         \* position in qemu_gluster_open / _create / _init
    op,         \* the entry point running: "open" or "create"
    s,          \* BDRVGlusterState: [glfs, fd]
    gconf,      \* the GlusterConf being filled
    glfs,       \* the local `glfs` of qemu_gluster_init, then of create
    fd,         \* the local `fd` of create
    ret,        \* the local `ret` of open / create
    old_errno,  \* the local `old_errno` of qemu_gluster_init
    initRet,    \* what qemu_gluster_init returned
    options,    \* the create options: [size, prealloc]
    prealloc,   \* the local `prealloc` of create
    total_size, \* the local `total_size` of create (sectors)
    zerofill,   \* CONFIG_GLUSTERFS_ZEROFILL of the build
    result,     \* what open / create returned
    \* ---- the library's side, and history
    vol,        \* the volume handle: "none", "live", "finalized"
    file,       \* the file handle: "none", "open", "closed"
    calls,      \* the library calls made, in order
    gconfFrees, \* calls of qemu_gluster_gconf_free
    failStep,   \* the first step that failed, "none" if none has
    failErrno,  \* errno as that step left it
    finiErrno,  \* errno as glfs_fini left it in qemu_gluster_init
    \* ---- history kept for the parser and for close
    location,   \* what uri_parse made of the filename, in a traced run
    tracing,    \* whether the run remembers the location it parsed
    closeFrom,  \* Len(calls) when qemu_gluster_close was entered
    \* ---- thread state shared by both machines
    errno

aioVars == <<acb, co, lret, cb, cret, bhs, hostCo, inBH, retval,
             freedBy, enteredBy, readAt, misuse>>
lifeVars == <<pc, op, s, gconf, glfs, fd, ret, old_errno, initRet, options,
              prealloc, total_size, zerofill, result, vol, file, calls,
              gconfFrees, failStep, failErrno, finiErrno>>
traceVars == <<location, tracing, closeFrom>>
vars == <<aioVars, lifeVars, traceVars, errno>>

\* ------------------------------------------------------------ AIO bridge

\* Faulty variant: a partial transfer is passed on as a byte count, not failed.
gluster_finish_ret_partial(r, size) ==
    IF r = 0 \/ r = size THEN 0 ELSE r

\* Faulty variant of gluster_finish_ret: a completion value at or beyond the
\* expected size counts as success (ret >= acb->size for ret == acb->size).
gluster_finish_ret_overrun(r, size) ==
    IF r = 0 \/ r >= size THEN 0
    ELSE IF r < 0 THEN r
    ELSE -EIO

\* gluster_finish_aiocb, lines 249-255: the value written to acb->ret.  The
\* values delivered here all fit the int that acb->ret is.
gluster_finish_ret(r, size) ==
    IF r = 0 \/ r = size THEN 0
    ELSE IF r < 0 THEN r
    ELSE -EIO

\* The completion values the library is taken to deliver for a request of
\* `size` bytes: an error, nothing, a partial count, the full count, more.
CompletionValues(size) ==
    {-EIO, 0, size \div 2, size, size + 1}

\* Faulty variant: the waiter is kept in one place shared by all requests.
AcbInit_shared_waiter(size, self) ==
    [st |-> "live", size |-> size, ret |-> 0, bh |-> NULL, coroutine |-> 1]

AcbInit(size, self) == [st |-> "live", size |-> size, ret |-> 0, bh |-> NULL,
                        coroutine |-> self]

AioInit ==
    /\ acb = [i \in Ops |-> [st |-> "none", size |-> 0, ret |-> 0, bh |-> NULL,
                             coroutine |-> NULL]]
    /\ co = [i \in Ops |-> "new"]
    /\ lret = [i \in Ops |-> 0]
    /\ cb = [i \in Ops |-> "idle"]
    /\ cret = [i \in Ops |-> 0]
    /\ bhs = [i \in Ops |-> "none"]
    /\ hostCo = NULL
    /\ inBH = NULL
    /\ retval = [i \in Ops |-> 0]
    /\ freedBy = [i \in Ops |-> <<>>]
    /\ enteredBy = [i \in Ops |-> <<>>]
    /\ readAt = [i \in Ops |-> NULL]
    /\ misuse = {}

\* The host I/O thread runs one coroutine or bottom-half at a time.
HostIdle == hostCo = NULL /\ inBH = NULL

\* The block layer starts coroutines in index order (they are interchangeable).
MayStart(i) ==
    /\ HostIdle
    /\ co[i] = "new"
    /\ \A j \in Ops : j < i => co[j] # "new"

\* Lines 450-470 (and 337-350, 508-519, 534-547): allocate and fill the
\* record, call the glfs_*_async function; on a negative return take -errno
\* and go to out.
Submit(i, size) ==
    /\ MayStart(i)
    /\ hostCo' = i
    /\ acb' = [acb EXCEPT ![i] = AcbInit(size, i)]
    /\ \/ /\ cb' = [cb EXCEPT ![i] = "pending"]
          /\ co' = [co EXCEPT ![i] = "submitted"]
          /\ UNCHANGED <<lret, errno>>
       \/ /\ \E e \in ErrnoAfterFailure(errno) :
                /\ errno' = e
                /\ lret' = [lret EXCEPT ![i] = -e]
          /\ co' = [co EXCEPT ![i] = "out"]
          /\ UNCHANGED cb
    /\ UNCHANGED <<cret, bhs, inBH, retval, freedBy, enteredBy, readAt, misuse>>
    /\ UNCHANGED <<lifeVars, traceVars>>

qemu_gluster_co_rw(i, write) ==
    \E nb \in 1..MaxSectors :
        Submit(i, nb * BDRV_SECTOR_SIZE)

qemu_gluster_co_write_zeroes(i) ==
    \E nb \in 1..MaxSectors : Submit(i, nb * BDRV_SECTOR_SIZE)

qemu_gluster_co_flush_to_disk(i) == Submit(i, 0)

qemu_gluster_co_discard(i) == Submit(i, 0)

\* qemu_coroutine_yield(), lines 352, 472, 521, 549.
co_yield(i) ==
    /\ hostCo = i
    /\ co[i] = "submitted"
    /\ co' = [co EXCEPT ![i] = "yielded"]
    /\ hostCo' = NULL
    /\ UNCHANGED <<acb, lret, cb, cret, bhs, inBH, retval, freedBy,
                   enteredBy, readAt, misuse, errno>>
    /\ UNCHANGED <<lifeVars, traceVars>>

\* ret = acb->ret, lines 353, 473, 522, 550.
co_read_result(i) ==
    /\ hostCo = i
    /\ co[i] = "resumed"
    /\ lret' = [lret EXCEPT ![i] = acb[i].ret]
    /\ readAt' = [readAt EXCEPT ![i] = i]
    /\ co' = [co EXCEPT ![i] = "out"]
    /\ UNCHANGED <<acb, cb, cret, bhs, hostCo, inBH, retval, freedBy,
                   enteredBy, misuse, errno>>
    /\ UNCHANGED <<lifeVars, traceVars>>

\* out: g_slice_free(GlusterAIOCB, acb); return ret.  The coroutine ends, and
\* the bottom-half that entered it (if any) returns to the event loop.
co_out(i) ==
    /\ hostCo = i
    /\ co[i] = "out"
    /\ acb' = [acb EXCEPT ![i].st = "freed"]
    /\ freedBy' = [freedBy EXCEPT ![i] = Append(@, "coroutine")]
    /\ retval' = [retval EXCEPT ![i] = lret[i]]
    /\ co' = [co EXCEPT ![i] = "done"]
    /\ hostCo' = NULL
    /\ inBH' = NULL
    /\ UNCHANGED <<lret, cb, cret, bhs, enteredBy, readAt, misuse, errno>>
    /\ UNCHANGED <<lifeVars, traceVars>>

\* An access to record i by the callback or the bottom-half.
Touch(who, i) == IF acb[i].st = "live" THEN misuse
                 ELSE misuse \cup {<<who, "freed", i>>}

\* gluster_finish_aiocb, lines 249-255, on a library thread: the library
\* delivers a completion value and the callback classifies it into acb->ret.
finish_aiocb_classify(i) ==
    /\ cb[i] = "pending"
    /\ \E r \in CompletionValues(acb[i].size) :
          /\ cret' = [cret EXCEPT ![i] = r]
          /\ acb' = [acb EXCEPT ![i].ret = gluster_finish_ret(r, acb[i].size)]
    /\ misuse' = Touch("callback", i)
    /\ cb' = [cb EXCEPT ![i] = "classified"]
    /\ UNCHANGED <<co, lret, bhs, hostCo, inBH, retval, freedBy,
                   enteredBy, readAt, errno>>
    /\ UNCHANGED <<lifeVars, traceVars>>

\* Line 257: acb->bh = qemu_bh_new(qemu_gluster_complete_aio, acb).
finish_aiocb_bh_new(i) ==
    /\ cb[i] = "classified"
    /\ acb' = [acb EXCEPT ![i].bh = i]
    /\ bhs' = [bhs EXCEPT ![i] = "new"]
    /\ misuse' = Touch("callback", i)
    /\ cb' = [cb EXCEPT ![i] = "bh_new"]
    /\ UNCHANGED <<co, lret, cret, hostCo, inBH, retval, freedBy,
                   enteredBy, readAt, errno>>
    /\ UNCHANGED <<lifeVars, traceVars>>

\* Faulty variant: the callback releases the record once it has scheduled the wake.
finish_aiocb_bh_schedule_free(i) ==
    /\ cb[i] = "bh_new"
    /\ bhs' = [bhs EXCEPT ![acb[i].bh] = "scheduled"]
    /\ acb' = [acb EXCEPT ![i].st = "freed"]
    /\ freedBy' = [freedBy EXCEPT ![i] = Append(@, "callback")]
    /\ misuse' = Touch("callback", i)
    /\ cb' = [cb EXCEPT ![i] = "returned"]
    /\ UNCHANGED <<co, lret, cret, hostCo, inBH, retval, enteredBy, readAt,
                   errno>>
    /\ UNCHANGED <<lifeVars, traceVars>>

\* Line 258: qemu_bh_schedule(acb->bh); the callback returns.
finish_aiocb_bh_schedule(i) ==
    /\ cb[i] = "bh_new"
    /\ bhs' = [bhs EXCEPT ![acb[i].bh] = "scheduled"]
    /\ misuse' = Touch("callback", i)
    /\ cb' = [cb EXCEPT ![i] = "returned"]
    /\ UNCHANGED <<acb, co, lret, cret, hostCo, inBH, retval, freedBy,
                   enteredBy, readAt, errno>>
    /\ UNCHANGED <<lifeVars, traceVars>>

\* Faulty variant: the bottom-half keeps its handle (no qemu_bh_delete).
complete_aio_keep_bh(i) ==
    /\ HostIdle
    /\ bhs[i] = "scheduled"
    /\ inBH' = i
    /\ misuse' = Touch("bottom-half", i)
    /\ UNCHANGED <<acb, bhs, co, lret, cb, cret, hostCo, retval, freedBy,
                   enteredBy, readAt, errno>>
    /\ UNCHANGED <<lifeVars, traceVars>>

\* Faulty variant of complete_aio_delete: the wake runs as soon as it is
\* scheduled, without waiting for the host I/O thread to be idle.
complete_aio_delete_at_once(i) ==
    /\ inBH = NULL
    /\ bhs[i] = "scheduled"
    /\ inBH' = i
    /\ bhs' = [bhs EXCEPT ![acb[i].bh] = "deleted"]
    /\ acb' = [acb EXCEPT ![i].bh = NULL]
    /\ misuse' = Touch("bottom-half", i)
    /\ UNCHANGED <<co, lret, cb, cret, hostCo, retval, freedBy,
                   enteredBy, readAt, errno>>
    /\ UNCHANGED <<lifeVars, traceVars>>

\* qemu_gluster_complete_aio, lines 237-238, run by the event loop of the
\* host I/O thread when it is idle: qemu_bh_delete(acb->bh); acb->bh = NULL.
complete_aio_delete(i) ==
    /\ HostIdle
    /\ bhs[i] = "scheduled"
    /\ inBH' = i
    /\ bhs' = [bhs EXCEPT ![acb[i].bh] = "deleted"]
    /\ acb' = [acb EXCEPT ![i].bh = NULL]
    /\ misuse' = Touch("bottom-half", i)
    /\ UNCHANGED <<co, lret, cb, cret, hostCo, retval, freedBy,
                   enteredBy, readAt, errno>>
    /\ UNCHANGED <<lifeVars, traceVars>>

\* Faulty variant: the bottom-half returns without entering the coroutine.
complete_aio_no_enter(i) ==
    /\ inBH = i
    /\ hostCo = NULL
    /\ inBH' = NULL
    /\ UNCHANGED <<acb, co, lret, cb, cret, bhs, hostCo, retval, freedBy,
                   enteredBy, readAt, misuse, errno>>
    /\ UNCHANGED <<lifeVars, traceVars>>

\* Line 239: qemu_coroutine_enter(acb->coroutine, NULL).
complete_aio_enter(i) ==
    /\ inBH = i
    /\ hostCo = NULL
    /\ LET c == acb[i].coroutine IN
          /\ hostCo' = c
          /\ co' = [co EXCEPT ![c] = "resumed"]
          /\ enteredBy' = [enteredBy EXCEPT ![c] = Append(@, <<"bottom-half", i>>)]
          /\ misuse' = (IF co[c] = "yielded" THEN Touch("bottom-half", i)
                        ELSE Touch("bottom-half", i) \cup {<<"enter", co[c], c>>})
    /\ UNCHANGED <<acb, lret, cb, cret, bhs, inBH, retval, freedBy,
                   readAt, errno>>
    /\ UNCHANGED <<lifeVars, traceVars>>

AioNext ==
    \E i \in Ops :
        \/ qemu_gluster_co_rw(i, FALSE)
        \/ qemu_gluster_co_rw(i, TRUE)
        \/ qemu_gluster_co_write_zeroes(i)
        \/ qemu_gluster_co_flush_to_disk(i)
        \/ qemu_gluster_co_discard(i)
        \/ co_yield(i)
        \/ co_read_result(i)
        \/ co_out(i)
        \/ finish_aiocb_classify(i)
        \/ finish_aiocb_bh_new(i)
        \/ finish_aiocb_bh_schedule(i)
        \/ complete_aio_delete(i)
        \/ complete_aio_enter(i)


\* ------------------------------------------------------- location parser

NoStr == "(null)"                       \* a char * that is NULL
NoPath == <<"(null)">>                  \* uri->path when it is NULL
Chars == {"/", "a"}                     \* the characters of a path

RECURSIVE SeqsUpTo(_)
SeqsUpTo(n) ==
    IF n = 0 THEN {<<>>}
    ELSE LET shorter == SeqsUpTo(n - 1) IN
         shorter \cup {Append(q, c) : q \in {x \in shorter : Len(x) = n - 1},
                                      c \in Chars}

\* strspn(s, "/"): the length of the leading run of slashes.
RECURSIVE strspn(_)
strspn(str) ==
    IF str # <<>> /\ Head(str) = "/" THEN 1 + strspn(Tail(str)) ELSE 0

\* strcspn(s, "/"): the length of the leading run of other characters.
RECURSIVE strcspn(_)
strcspn(str) ==
    IF str # <<>> /\ Head(str) # "/" THEN 1 + strcspn(Tail(str)) ELSE 0

Drop(str, n) == SubSeq(str, n + 1, Len(str))

GConfZero == [server |-> NoStr, port |-> 0, volname |-> <<>>, image |-> <<>>,
              transport |-> NoStr]

\* Faulty variant of parse_volume_options: the image is taken without the
\* test of line 73 that something follows the slashes.
parse_volume_options_empty_image(gc, path) ==
    IF path = NoPath THEN [ret |-> -EINVAL, gconf |-> gc]
    ELSE LET q == Drop(path, strspn(path))
             n == strcspn(q)
             p == Drop(q, n)
         IN  IF p = <<>> THEN [ret |-> -EINVAL, gconf |-> gc]
             ELSE LET gc1 == [gc EXCEPT !.volname = SubSeq(q, 1, n)]
                      p2 == Drop(p, strspn(p))
                  IN  [ret |-> 0, gconf |-> [gc1 EXCEPT !.image = p2]]

\* parse_volume_options, lines 55-78: [ret, gconf].
parse_volume_options(gc, path) ==
    IF path = NoPath THEN [ret |-> -EINVAL, gconf |-> gc]
    ELSE LET q == Drop(path, strspn(path))
             n == strcspn(q)
             p == Drop(q, n)
         IN  IF p = <<>> THEN [ret |-> -EINVAL, gconf |-> gc]
             ELSE LET gc1 == [gc EXCEPT !.volname = SubSeq(q, 1, n)]
                      p2 == Drop(p, strspn(p))
                  IN  IF p2 = <<>> THEN [ret |-> -EINVAL, gconf |-> gc1]
                      ELSE [ret |-> 0, gconf |-> [gc1 EXCEPT !.image = p2]]

\* The transport chosen by lines 130-142, NoStr for a scheme not known.
TransportOf(scheme) ==
    CASE scheme = NoStr \/ scheme = "gluster" -> "tcp"
      [] scheme = "gluster+tcp" -> "tcp"
      [] scheme = "gluster+unix" -> "unix"
      [] scheme = "gluster+rdma" -> "rdma"
      [] OTHER -> NoStr

\* Faulty variant of qemu_gluster_parseuri: a unix location may name a host
\* or a port (no test of uri->server and uri->port).
qemu_gluster_parseuri_unix_host(gc, uri) ==
    IF ~uri.parsed THEN [ret |-> -EINVAL, gconf |-> gc]
    ELSE LET transport == TransportOf(uri.scheme)
             is_unix == transport = "unix"
             gc1 == [gc EXCEPT !.transport = transport]
             pv == parse_volume_options(gc1, uri.path)
             qp == uri.qp
             n == Len(qp)
         IN  IF transport = NoStr THEN [ret |-> -EINVAL, gconf |-> gc]
             ELSE IF pv.ret < 0 THEN pv
             ELSE IF n > 1 \/ (is_unix /\ n = 0) \/ (~is_unix /\ n # 0)
                  THEN [ret |-> -EINVAL, gconf |-> pv.gconf]
             ELSE IF is_unix
                  THEN IF qp[1].name # "socket"
                       THEN [ret |-> -EINVAL, gconf |-> pv.gconf]
                       ELSE [ret |-> 0,
                             gconf |-> [pv.gconf EXCEPT !.server = qp[1].value]]
                  ELSE [ret |-> 0,
                        gconf |-> [pv.gconf EXCEPT
                                     !.server = IF uri.server # NoStr
                                                THEN uri.server ELSE "localhost",
                                     !.port = uri.port]]

\* Faulty variant of qemu_gluster_parseuri: query parameters of a tcp or rdma
\* location are let through (no !is_unix && qp->n in the test of line 150).
qemu_gluster_parseuri_query_ignored(gc, uri) ==
    IF ~uri.parsed THEN [ret |-> -EINVAL, gconf |-> gc]
    ELSE LET transport == TransportOf(uri.scheme)
             is_unix == transport = "unix"
             gc1 == [gc EXCEPT !.transport = transport]
             pv == parse_volume_options(gc1, uri.path)
             qp == uri.qp
             n == Len(qp)
         IN  IF transport = NoStr THEN [ret |-> -EINVAL, gconf |-> gc]
             ELSE IF pv.ret < 0 THEN pv
             ELSE IF n > 1 \/ (is_unix /\ n = 0)
                  THEN [ret |-> -EINVAL, gconf |-> pv.gconf]
             ELSE IF is_unix
                  THEN IF uri.server # NoStr \/ uri.port # 0
                       THEN [ret |-> -EINVAL, gconf |-> pv.gconf]
                       ELSE IF qp[1].name # "socket"
                       THEN [ret |-> -EINVAL, gconf |-> pv.gconf]
                       ELSE [ret |-> 0,
                             gconf |-> [pv.gconf EXCEPT !.server = qp[1].value]]
                  ELSE [ret |-> 0,
                        gconf |-> [pv.gconf EXCEPT
                                     !.server = IF uri.server # NoStr
                                                THEN uri.server ELSE "localhost",
                                     !.port = uri.port]]

\* qemu_gluster_parseuri, lines 117-176, on what uri_parse and
\* query_params_parse made of the filename (~uri.parsed: uri_parse failed).
qemu_gluster_parseuri(gc, uri) ==
    IF ~uri.parsed THEN [ret |-> -EINVAL, gconf |-> gc]
    ELSE LET transport == TransportOf(uri.scheme)
             is_unix == transport = "unix"
             gc1 == [gc EXCEPT !.transport = transport]
             pv == parse_volume_options(gc1, uri.path)
             qp == uri.qp
             n == Len(qp)
         IN  IF transport = NoStr THEN [ret |-> -EINVAL, gconf |-> gc]
             ELSE IF pv.ret < 0 THEN pv
             ELSE IF n > 1 \/ (is_unix /\ n = 0) \/ (~is_unix /\ n # 0)
                  THEN [ret |-> -EINVAL, gconf |-> pv.gconf]
             ELSE IF is_unix
                  THEN IF uri.server # NoStr \/ uri.port # 0
                       THEN [ret |-> -EINVAL, gconf |-> pv.gconf]
                       ELSE IF qp[1].name # "socket"
                       THEN [ret |-> -EINVAL, gconf |-> pv.gconf]
                       ELSE [ret |-> 0,
                             gconf |-> [pv.gconf EXCEPT !.server = qp[1].value]]
                  ELSE [ret |-> 0,
                        gconf |-> [pv.gconf EXCEPT
                                     !.server = IF uri.server # NoStr
                                                THEN uri.server ELSE "localhost",
                                     !.port = uri.port]]

Schemes == {NoStr, "gluster", "gluster+tcp", "gluster+unix", "gluster+rdma",
            "gluster+ftp"}
Paths == {NoPath} \cup SeqsUpTo(MaxPathLen)
QueryParam == [name : {"socket", "other"}, value : {"/tmp/glusterd.socket"}]
Queries == {<<>>} \cup {<<a>> : a \in QueryParam}
               \cup {<<a, b>> : a \in QueryParam, b \in QueryParam}

\* What uri_parse can return for a filename.
URIs ==
    [scheme : Schemes, server : {NoStr, "1.2.3.4"}, port : {0, 24007},
     path : Paths, qp : Queries, parsed : {TRUE}]
    \cup {[scheme |-> NoStr, server |-> NoStr, port |-> 0, path |-> NoPath,
           qp |-> <<>>, parsed |-> FALSE]}

\* No filename has been parsed, or the run does not remember it.
NoURI == [scheme |-> NoStr, server |-> NoStr, port |-> 0, path |-> NoPath,
          qp |-> <<>>, parsed |-> FALSE]
TraceOff == location = NoURI /\ tracing = FALSE /\ closeFrom = 0
TraceOn == location = NoURI /\ tracing = TRUE /\ closeFrom = 0

\* -------------------------------------------------------- open and create

GLFS == 1                               \* the struct glfs * glfs_new returns
GLFD == 1                               \* the struct glfs_fd * of the image

Call(fn, arg) == [fn |-> fn, arg |-> arg]
Bytes(sectors) == sectors * BDRV_SECTOR_SIZE

\* The create options the block layer passes: a size in bytes and the
\* preallocation string (absent from the list, without a value, or a string).
CreateSizes == {nb * BDRV_SECTOR_SIZE + d : nb \in 0..MaxSectors, d \in {0, 1}}
CreateOptions == [size : CreateSizes,
                  prealloc : {"absent", NoStr, "off", "full", "metadata"}]

LifeStart ==
    /\ pc = "start"
    /\ op = "none"
    /\ s = [glfs |-> NULL, fd |-> NULL]
    /\ gconf = GConfZero
    /\ glfs = NULL
    /\ fd = NULL
    /\ ret = 0
    /\ old_errno = 0
    /\ initRet = NULL
    /\ options = [size |-> 0, prealloc |-> "absent"]
    /\ prealloc = 0
    /\ total_size = 0
    /\ zerofill \in BOOLEAN
    /\ result = 0
    /\ vol = "none"
    /\ file = "none"
    /\ calls = <<>>
    /\ gconfFrees = 0
    /\ failStep = "none"
    /\ failErrno = 0
    /\ finiErrno = 0

\* The instance the AIO bridge works on: opened, both handles present.
LifeReady ==
    /\ pc = "ready"
    /\ op = "open"
    /\ s = [glfs |-> GLFS, fd |-> GLFD]
    /\ gconf = GConfZero
    /\ glfs = NULL
    /\ fd = NULL
    /\ ret = 0
    /\ old_errno = 0
    /\ initRet = GLFS
    /\ options = [size |-> 0, prealloc |-> "absent"]
    /\ prealloc = 0
    /\ total_size = 0
    /\ zerofill = TRUE
    /\ result = 0
    /\ vol = "live"
    /\ file = "open"
    /\ calls = <<>>
    /\ gconfFrees = 1
    /\ failStep = "none"
    /\ failErrno = 0
    /\ finiErrno = 0

\* A library call failed: errno is what it left, and the first failure of
\* the run is remembered.
Failed(step, e) ==
    /\ errno' = e
    /\ failStep' = IF failStep = "none" THEN step ELSE failStep
    /\ failErrno' = IF failStep = "none" THEN e ELSE failErrno

\* glfs_fini on a volume handle.
Fini(v) == IF v = "live" THEN "finalized" ELSE "finalized twice"
\* glfs_close on a file handle.
Close(f) == IF f = "open" THEN "closed" ELSE "closed twice"

\* Faulty variant of init_parseuri: a rejected filename leaves errno as it
\* was (no errno = -ret).
init_parseuri_keeps_errno ==
    /\ pc = "init_parseuri"
    /\ \E u \in URIs :
          LET r == qemu_gluster_parseuri(gconf, u) IN
          /\ gconf' = r.gconf
          /\ location' = IF tracing THEN u ELSE location
          /\ IF r.ret < 0
             THEN /\ Failed("parseuri", errno)
                  /\ pc' = "init_out"
             ELSE /\ pc' = "init_glfs_new"
                  /\ UNCHANGED <<errno, failStep, failErrno>>
    /\ glfs' = NULL
    /\ UNCHANGED <<op, s, fd, ret, old_errno, initRet, options, prealloc,
                   total_size, zerofill, result, vol, file, calls, gconfFrees,
                   finiErrno>>
    /\ UNCHANGED <<aioVars, tracing, closeFrom>>

\* qemu_gluster_init, lines 185-191.
init_parseuri ==
    /\ pc = "init_parseuri"
    /\ \E u \in URIs :
          LET r == qemu_gluster_parseuri(gconf, u) IN
          /\ gconf' = r.gconf
          /\ location' = IF tracing THEN u ELSE location
          /\ IF r.ret < 0
             THEN /\ Failed("parseuri", -r.ret)
                  /\ pc' = "init_out"
             ELSE /\ pc' = "init_glfs_new"
                  /\ UNCHANGED <<errno, failStep, failErrno>>
    /\ glfs' = NULL
    /\ UNCHANGED <<op, s, fd, ret, old_errno, initRet, options, prealloc,
                   total_size, zerofill, result, vol, file, calls, gconfFrees,
                   finiErrno>>
    /\ UNCHANGED <<aioVars, tracing, closeFrom>>

\* Lines 193-196.
init_glfs_new ==
    /\ pc = "init_glfs_new"
    /\ calls' = Append(calls, Call("glfs_new", <<gconf.volname>>))
    /\ \/ /\ glfs' = GLFS
          /\ vol' = "live"
          /\ pc' = "init_set_volfile_server"
          /\ UNCHANGED <<errno, failStep, failErrno>>
       \/ /\ glfs' = NULL
          /\ \E e \in ErrnoAfterFailure(errno) : Failed("glfs_new", e)
          /\ pc' = "init_out"
          /\ UNCHANGED vol
    /\ UNCHANGED <<op, s, gconf, fd, ret, old_errno, initRet, options, prealloc,
                   total_size, zerofill, result, file, gconfFrees, finiErrno>>
    /\ UNCHANGED <<aioVars, traceVars>>

\* A step of qemu_gluster_init that calls the library on the new handle and
\* goes to out when the call fails.
InitStep(here, fn, arg, next) ==
    /\ pc = here
    /\ calls' = Append(calls, Call(fn, arg))
    /\ \/ /\ pc' = next
          /\ UNCHANGED <<errno, failStep, failErrno>>
       \/ /\ \E e \in ErrnoAfterFailure(errno) : Failed(fn, e)
          /\ pc' = "init_out"
    /\ UNCHANGED <<op, s, gconf, glfs, fd, ret, old_errno, options, prealloc,
                   total_size, zerofill, result, vol, file, gconfFrees,
                   finiErrno>>
    /\ UNCHANGED <<aioVars, traceVars>>

\* Lines 198-202.
init_set_volfile_server ==
    /\ InitStep("init_set_volfile_server", "glfs_set_volfile_server",
                <<gconf.transport, gconf.server, gconf.port>>,
                "init_set_logging")
    /\ UNCHANGED initRet

\* Lines 208-211.
init_set_logging ==
    /\ InitStep("init_set_logging", "glfs_set_logging", <<"-", 4>>,
                "init_glfs_init")
    /\ UNCHANGED initRet

\* Lines 213-222: glfs_init; on success qemu_gluster_init returns the handle.
\* (error_setg_errno keeps errno.)
init_glfs_init ==
    /\ InitStep("init_glfs_init", "glfs_init", <<>>, "init_return")
    /\ initRet' = IF pc' = "init_return" THEN glfs ELSE initRet

\* out:, lines 224-228: with a handle, old_errno = errno; glfs_fini(glfs),
\* which may leave anything in errno.
init_out_fini ==
    /\ pc = "init_out"
    /\ glfs # NULL
    /\ old_errno' = errno
    /\ calls' = Append(calls, Call("glfs_fini", <<>>))
    /\ vol' = Fini(vol)
    /\ \E e \in Errnos : errno' = e /\ finiErrno' = e
    /\ pc' = "init_restore"
    /\ UNCHANGED <<op, s, gconf, glfs, fd, ret, initRet, options, prealloc,
                   total_size, zerofill, result, file, gconfFrees, failStep,
                   failErrno>>
    /\ UNCHANGED <<aioVars, traceVars>>

\* Faulty variant: the teardown does not put errno back.
init_restore_forgotten ==
    /\ pc = "init_restore"
    /\ initRet' = NULL
    /\ pc' = "init_return"
    /\ UNCHANGED <<op, s, gconf, glfs, fd, ret, old_errno, options, prealloc,
                   total_size, zerofill, result, vol, file, calls, gconfFrees,
                   failStep, failErrno, finiErrno, errno>>
    /\ UNCHANGED <<aioVars, traceVars>>

\* Lines 228-230: errno = old_errno; return NULL.
init_restore ==
    /\ pc = "init_restore"
    /\ errno' = old_errno
    /\ initRet' = NULL
    /\ pc' = "init_return"
    /\ UNCHANGED <<op, s, gconf, glfs, fd, ret, old_errno, options, prealloc,
                   total_size, zerofill, result, vol, file, calls, gconfFrees,
                   failStep, failErrno, finiErrno>>
    /\ UNCHANGED <<aioVars, traceVars>>

\* out:, lines 224-230, without a handle: return NULL.
init_out_null ==
    /\ pc = "init_out"
    /\ glfs = NULL
    /\ initRet' = NULL
    /\ pc' = "init_return"
    /\ UNCHANGED <<op, s, gconf, glfs, fd, ret, old_errno, options, prealloc,
                   total_size, zerofill, result, vol, file, calls, gconfFrees,
                   failStep, failErrno, finiErrno, errno>>
    /\ UNCHANGED <<aioVars, traceVars>>

\* qemu_gluster_open, lines 278-294: the options are absorbed; an error there
\* is -EINVAL.  bs->opaque arrives zeroed.
qemu_gluster_open ==
    /\ pc = "start"
    /\ op' = "open"
    /\ \/ /\ ret' = -EINVAL
          /\ pc' = "open_out"
       \/ /\ pc' = "init_parseuri"
          /\ UNCHANGED ret
    /\ UNCHANGED <<s, gconf, glfs, fd, old_errno, initRet, options, prealloc,
                   total_size, zerofill, result, vol, file, calls, gconfFrees,
                   failStep, failErrno, finiErrno, errno>>
    /\ UNCHANGED <<aioVars, traceVars>>

\* Lines 296-300: s->glfs = qemu_gluster_init(...); without a handle,
\* ret = -errno.
open_init_return ==
    /\ pc = "init_return"
    /\ op = "open"
    /\ s' = [s EXCEPT !.glfs = initRet]
    /\ IF initRet = NULL
       THEN ret' = -errno /\ pc' = "open_out"
       ELSE pc' = "open_glfs_open" /\ UNCHANGED ret
    /\ UNCHANGED <<op, gconf, glfs, fd, old_errno, initRet, options, prealloc,
                   total_size, zerofill, result, vol, file, calls, gconfFrees,
                   failStep, failErrno, finiErrno, errno>>
    /\ UNCHANGED <<aioVars, traceVars>>

\* Lines 302-315: s->fd = glfs_open(s->glfs, gconf->image, open_flags);
\* without a file handle, ret = -errno.  (bdrv_flags only choose open_flags.)
open_glfs_open ==
    /\ pc = "open_glfs_open"
    /\ calls' = Append(calls, Call("glfs_open", <<gconf.image>>))
    /\ \/ /\ s' = [s EXCEPT !.fd = GLFD]
          /\ file' = "open"
          /\ UNCHANGED <<ret, errno, failStep, failErrno>>
       \/ /\ s' = [s EXCEPT !.fd = NULL]
          /\ \E e \in ErrnoAfterFailure(errno) :
                Failed("glfs_open", e) /\ ret' = -e
          /\ UNCHANGED file
    /\ pc' = "open_out"
    /\ UNCHANGED <<op, gconf, glfs, fd, old_errno, initRet, options, prealloc,
                   total_size, zerofill, result, vol, gconfFrees, finiErrno>>
    /\ UNCHANGED <<aioVars, traceVars>>

\* out:, lines 317-329: the options and the GlusterConf are released; with
\* ret = 0 open returns; otherwise the handles s holds are closed and
\* finalized, and s keeps pointing at them.
open_out ==
    /\ pc = "open_out"
    /\ gconf' = GConfZero
    /\ gconfFrees' = gconfFrees + 1
    /\ LET closing == ret # 0 /\ s.fd # NULL
           finishing == ret # 0 /\ s.glfs # NULL
       IN  /\ file' = IF closing THEN Close(file) ELSE file
           /\ vol' = IF finishing THEN Fini(vol) ELSE vol
           /\ calls' = calls
                       \o (IF closing THEN <<Call("glfs_close", <<>>)>> ELSE <<>>)
                       \o (IF finishing THEN <<Call("glfs_fini", <<>>)>> ELSE <<>>)
    /\ result' = ret
    /\ pc' = "done"
    /\ UNCHANGED <<op, s, glfs, fd, ret, old_errno, initRet, options, prealloc,
                   total_size, zerofill, failStep, failErrno, finiErrno, errno>>
    /\ UNCHANGED <<aioVars, traceVars>>

\* qemu_gluster_create, lines 387-394.
qemu_gluster_create ==
    /\ pc = "start"
    /\ op' = "create"
    /\ pc' = "init_parseuri"
    /\ UNCHANGED <<s, gconf, glfs, fd, ret, old_errno, initRet, options,
                   prealloc, total_size, zerofill, result, vol, file, calls,
                   gconfFrees, failStep, failErrno, finiErrno, errno>>
    /\ UNCHANGED <<aioVars, traceVars>>

\* Faulty variant of gluster_supports_zerofill: a build without glfs_zerofill
\* that answers 1.
gluster_supports_zerofill_always == TRUE

\* gluster_supports_zerofill, lines 360-363 and 372-375.
gluster_supports_zerofill == zerofill

\* The loop of lines 400-418 over the options: [ret, total_size, prealloc].
ScanOptions(o) ==
    LET ts == o.size \div BDRV_SECTOR_SIZE IN
    IF o.prealloc = "absent" THEN [ret |-> 0, total_size |-> ts, prealloc |-> 0]
    ELSE IF o.prealloc = NoStr \/ o.prealloc = "off"
         THEN [ret |-> 0, total_size |-> ts, prealloc |-> 0]
    ELSE IF o.prealloc = "full" /\ gluster_supports_zerofill
         THEN [ret |-> 0, total_size |-> ts, prealloc |-> 1]
    ELSE [ret |-> -EINVAL, total_size |-> ts, prealloc |-> 0]

\* Lines 394-418: glfs = qemu_gluster_init(...); without a handle
\* ret = -EINVAL; otherwise the options are scanned.
create_init_return ==
    /\ pc = "init_return"
    /\ op = "create"
    /\ glfs' = initRet
    /\ IF initRet = NULL
       THEN /\ ret' = -EINVAL
            /\ pc' = "create_out"
            /\ UNCHANGED <<options, total_size, prealloc>>
       ELSE \E o \in CreateOptions :
              LET sc == ScanOptions(o) IN
              /\ options' = o
              /\ total_size' = sc.total_size
              /\ prealloc' = sc.prealloc
              /\ ret' = sc.ret
              /\ pc' = IF sc.ret < 0 THEN "create_out" ELSE "create_glfs_creat"
    /\ UNCHANGED <<op, s, gconf, fd, old_errno, initRet, zerofill, result, vol,
                   file, calls, gconfFrees, failStep, failErrno, finiErrno,
                   errno>>
    /\ UNCHANGED <<aioVars, traceVars>>

\* Lines 420-423: fd = glfs_creat(glfs, gconf->image, ...).
create_glfs_creat ==
    /\ pc = "create_glfs_creat"
    /\ calls' = Append(calls, Call("glfs_creat", <<gconf.image>>))
    /\ \/ /\ fd' = GLFD
          /\ file' = "open"
          /\ pc' = "create_ftruncate"
          /\ UNCHANGED <<ret, errno, failStep, failErrno>>
       \/ /\ fd' = NULL
          /\ \E e \in ErrnoAfterFailure(errno) :
                Failed("glfs_creat", e) /\ ret' = -e
          /\ pc' = "create_out"
          /\ UNCHANGED file
    /\ UNCHANGED <<op, s, gconf, glfs, old_errno, initRet, options, prealloc,
                   total_size, zerofill, result, vol, gconfFrees, finiErrno>>
    /\ UNCHANGED <<aioVars, traceVars>>

\* Faulty variant of create_ftruncate: the zero-fill follows the truncate
\* whatever the truncate returned.
create_ftruncate_fill_anyway ==
    /\ pc = "create_ftruncate"
    /\ calls' = Append(calls, Call("glfs_ftruncate", <<Bytes(total_size)>>))
    /\ \/ /\ pc' = IF prealloc # 0 THEN "create_zerofill" ELSE "create_close"
          /\ UNCHANGED <<ret, errno, failStep, failErrno>>
       \/ /\ \E e \in ErrnoAfterFailure(errno) :
                Failed("glfs_ftruncate", e) /\ ret' = -e
          /\ pc' = IF prealloc # 0 THEN "create_zerofill" ELSE "create_close"
    /\ UNCHANGED <<op, s, gconf, glfs, fd, old_errno, initRet, options,
                   prealloc, total_size, zerofill, result, vol, file,
                   gconfFrees, finiErrno>>
    /\ UNCHANGED <<aioVars, traceVars>>

\* Lines 425 and 430-432: glfs_ftruncate(fd, total_size * BDRV_SECTOR_SIZE).
create_ftruncate ==
    /\ pc = "create_ftruncate"
    /\ calls' = Append(calls, Call("glfs_ftruncate", <<Bytes(total_size)>>))
    /\ \/ /\ pc' = IF prealloc # 0 THEN "create_zerofill" ELSE "create_close"
          /\ UNCHANGED <<ret, errno, failStep, failErrno>>
       \/ /\ \E e \in ErrnoAfterFailure(errno) :
                Failed("glfs_ftruncate", e) /\ ret' = -e
          /\ pc' = "create_close"
    /\ UNCHANGED <<op, s, gconf, glfs, fd, old_errno, initRet, options,
                   prealloc, total_size, zerofill, result, vol, file,
                   gconfFrees, finiErrno>>
    /\ UNCHANGED <<aioVars, traceVars>>

\* Lines 426-429 with 365-369 and 377-381: qemu_gluster_zerofill(fd, 0,
\* total_size * BDRV_SECTOR_SIZE), which is glfs_zerofill in a build that has
\* it and returns 0 in one that has not.
create_zerofill ==
    /\ pc = "create_zerofill"
    /\ IF zerofill
       THEN /\ calls' = Append(calls,
                               Call("glfs_zerofill", <<0, Bytes(total_size)>>))
            /\ \/ UNCHANGED <<ret, errno, failStep, failErrno>>
               \/ \E e \in ErrnoAfterFailure(errno) :
                     Failed("glfs_zerofill", e) /\ ret' = -e
       ELSE UNCHANGED <<calls, ret, errno, failStep, failErrno>>
    /\ pc' = "create_close"
    /\ UNCHANGED <<op, s, gconf, glfs, fd, old_errno, initRet, options,
                   prealloc, total_size, zerofill, result, vol, file,
                   gconfFrees, finiErrno>>
    /\ UNCHANGED <<aioVars, traceVars>>

\* Lines 434-436: glfs_close(fd); a failure there sets ret = -errno.
create_close ==
    /\ pc = "create_close"
    /\ calls' = Append(calls, Call("glfs_close", <<>>))
    /\ file' = Close(file)
    /\ \/ UNCHANGED <<ret, errno, failStep, failErrno>>
       \/ \E e \in ErrnoAfterFailure(errno) :
             Failed("glfs_close", e) /\ ret' = -e
    /\ pc' = "create_out"
    /\ UNCHANGED <<op, s, gconf, glfs, fd, old_errno, initRet, options,
                   prealloc, total_size, zerofill, result, vol, gconfFrees,
                   finiErrno>>
    /\ UNCHANGED <<aioVars, traceVars>>

\* Faulty variant: the volume handle is not finalized at out.
create_out_leak ==
    /\ pc = "create_out"
    /\ gconf' = GConfZero
    /\ gconfFrees' = gconfFrees + 1
    /\ result' = ret
    /\ pc' = "done"
    /\ UNCHANGED <<op, s, glfs, fd, ret, old_errno, initRet, options, prealloc,
                   total_size, zerofill, vol, file, calls, failStep, failErrno,
                   finiErrno, errno>>
    /\ UNCHANGED <<aioVars, traceVars>>

\* out:, lines 438-443: the GlusterConf is released, the volume handle (if
\* any) finalized, ret returned.
create_out ==
    /\ pc = "create_out"
    /\ gconf' = GConfZero
    /\ gconfFrees' = gconfFrees + 1
    /\ IF glfs # NULL
       THEN /\ calls' = Append(calls, Call("glfs_fini", <<>>))
            /\ vol' = Fini(vol)
       ELSE UNCHANGED <<calls, vol>>
    /\ result' = ret
    /\ pc' = "done"
    /\ UNCHANGED <<op, s, glfs, fd, ret, old_errno, initRet, options, prealloc,
                   total_size, zerofill, file, failStep, failErrno, finiErrno,
                   errno>>
    /\ UNCHANGED <<aioVars, traceVars>>

\* Faulty variant of qemu_gluster_close: the file handle is left alone.
qemu_gluster_close_skip_file ==
    /\ pc = "done"
    /\ op = "open"
    /\ result = 0
    /\ op' = "close"
    /\ closeFrom' = Len(calls)
    /\ pc' = "close_glfs_fini"
    /\ UNCHANGED <<s, gconf, glfs, fd, ret, old_errno, initRet, options,
                   prealloc, total_size, zerofill, result, vol, file, calls,
                   gconfFrees, failStep, failErrno, finiErrno, errno>>
    /\ UNCHANGED <<aioVars, location, tracing>>

\* qemu_gluster_close, lines 585-589, called by the block layer on an
\* instance whose open returned 0: the test of s->fd.
qemu_gluster_close ==
    /\ pc = "done"
    /\ op = "open"
    /\ result = 0
    /\ op' = "close"
    /\ closeFrom' = Len(calls)
    /\ pc' = IF s.fd # NULL THEN "close_glfs_close" ELSE "close_glfs_fini"
    /\ UNCHANGED <<s, gconf, glfs, fd, ret, old_errno, initRet, options,
                   prealloc, total_size, zerofill, result, vol, file, calls,
                   gconfFrees, failStep, failErrno, finiErrno, errno>>
    /\ UNCHANGED <<aioVars, location, tracing>>

\* Lines 589-592: glfs_close(s->fd); s->fd = NULL.  What glfs_close returns
\* is not looked at.
close_glfs_close ==
    /\ pc = "close_glfs_close"
    /\ calls' = Append(calls, Call("glfs_close", <<>>))
    /\ file' = Close(file)
    /\ s' = [s EXCEPT !.fd = NULL]
    /\ \/ UNCHANGED <<errno, failStep, failErrno>>
       \/ \E e \in ErrnoAfterFailure(errno) : Failed("glfs_close", e)
    /\ pc' = "close_glfs_fini"
    /\ UNCHANGED <<op, gconf, glfs, fd, ret, old_errno, initRet, options,
                   prealloc, total_size, zerofill, result, vol, gconfFrees,
                   finiErrno>>
    /\ UNCHANGED <<aioVars, traceVars>>

\* Line 593: glfs_fini(s->glfs), whatever s->glfs is.
close_glfs_fini ==
    /\ pc = "close_glfs_fini"
    /\ calls' = Append(calls, Call("glfs_fini", <<>>))
    /\ vol' = IF s.glfs # NULL THEN Fini(vol) ELSE vol
    /\ \/ UNCHANGED <<errno, failStep, failErrno>>
       \/ \E e \in ErrnoAfterFailure(errno) : Failed("glfs_fini", e)
    /\ pc' = "closed"
    /\ UNCHANGED <<op, s, gconf, glfs, fd, ret, old_errno, initRet, options,
                   prealloc, total_size, zerofill, result, file, gconfFrees,
                   finiErrno>>
    /\ UNCHANGED <<aioVars, traceVars>>

LifeNext ==
    \/ qemu_gluster_open
    \/ qemu_gluster_create
    \/ init_parseuri
    \/ init_glfs_new
    \/ init_set_volfile_server
    \/ init_set_logging
    \/ init_glfs_init
    \/ init_out_fini
    \/ init_restore
    \/ init_out_null
    \/ open_init_return
    \/ open_glfs_open
    \/ open_out
    \/ create_init_return
    \/ create_glfs_creat
    \/ create_ftruncate
    \/ create_zerofill
    \/ create_close
    \/ create_out
    \/ qemu_gluster_close
    \/ close_glfs_close
    \/ close_glfs_fini

\* open or create is called with the bridge idle and errno holding anything.
LifeInit == AioInit /\ LifeStart /\ TraceOff /\ errno \in Errnos
SpecLife == LifeInit /\ [][LifeNext]_vars

\* The same entry points in a run that remembers the location it parsed, in
\* a build with glfs_zerofill and with errno clear at the start.
ParseInit == AioInit /\ LifeStart /\ zerofill /\ TraceOn /\ errno = 0
SpecParse == ParseInit /\ [][LifeNext]_vars

\* The AIO bridge works on an opened instance.
Init == AioInit /\ LifeReady /\ TraceOff /\ errno = 0
Next == AioNext
Spec == Init /\ [][Next]_vars

\* The host I/O thread keeps running what it has started (a coroutine runs
\* until it yields or ends, the event loop runs every scheduled bottom-half),
\* and a callback the library has invoked runs to its end.  Nothing obliges
\* the library to invoke a callback, nor the block layer to issue a request.
Fairness ==
    \A i \in Ops :
        /\ WF_vars(co_yield(i))
        /\ WF_vars(co_read_result(i))
        /\ WF_vars(co_out(i))
        /\ WF_vars(finish_aiocb_bh_new(i))
        /\ WF_vars(finish_aiocb_bh_schedule(i))
        /\ WF_vars(complete_aio_delete(i))
        /\ WF_vars(complete_aio_enter(i))

SpecFair == Spec /\ Fairness

\* ------------------------------------------------- claims on the AIO bridge

Submitted(i) == cb[i] # "idle"          \* the asynchronous submission succeeded
Invoked(i) == cb[i] \notin {"idle", "pending"}   \* the callback was invoked
Returned(i) == co[i] = "done"           \* the operation has returned retval[i]

\* C1: an operation that was submitted successfully and has returned, with r
\* the completion value delivered for it, returned 0 if r is 0 or r is the
\* record's expected size, r if r is negative, and -EIO if r is strictly
\* between 0 and the expected size.
C1_ResultClassification ==
    \A i \in Ops :
        Submitted(i) /\ Returned(i) =>
            LET r == cret[i]
                size == acb[i].size
            IN  /\ (r = 0 \/ r = size) => retval[i] = 0
                /\ r < 0 => retval[i] = r
                /\ (0 < r /\ r < size) => retval[i] = -EIO

\* A partial transfer came back as -EIO.
C1_Witness ==
    \E i \in Ops :
        /\ Submitted(i) /\ Returned(i)
        /\ 0 < cret[i] /\ cret[i] < acb[i].size
        /\ retval[i] = -EIO

\* C2: under the fairness of the host thread, an operation whose callback
\* has been invoked eventually returns; and a coroutine that has yielded
\* leaves its yield only once its callback has been invoked.
C2_BridgeLiveness ==
    /\ \A i \in Ops : Invoked(i) ~> Returned(i)
    /\ [][\A i \in Ops :
            co[i] = "yielded" /\ ~Invoked(i) => co'[i] = "yielded"]_vars

\* One operation has returned after its callback while another is still
\* suspended because the library has not completed it.
C2_Witness ==
    \E i, j \in Ops :
        /\ Returned(i) /\ cb[i] = "returned"
        /\ co[j] = "yielded" /\ cb[j] = "pending"

\* C3: a record is freed at most once and only by its coroutine; it is freed
\* exactly when the operation has returned, which is after a failed
\* submission or after the coroutine was resumed and read the result; and
\* neither the callback nor the bottom-half touches a freed record.
C3_RecordFreedOnceBySubmitter ==
    /\ \A i \in Ops :
        /\ Len(freedBy[i]) <= 1
        /\ \A k \in 1..Len(freedBy[i]) : freedBy[i][k] = "coroutine"
        /\ acb[i].st = "freed" <=> Len(freedBy[i]) = 1
        /\ acb[i].st = "freed" <=> Returned(i)
        /\ acb[i].st = "freed" =>
              \/ ~Submitted(i)
              \/ readAt[i] = i /\ Len(enteredBy[i]) = 1
    /\ \A m \in misuse : m[2] # "freed"

\* One record was freed after its coroutine resumed, another after a failed
\* submission.
C3_Witness ==
    \E i, j \in Ops :
        /\ acb[i].st = "freed" /\ cb[i] = "returned" /\ readAt[i] = i
        /\ acb[j].st = "freed" /\ ~Submitted(j)

\* C4: a coroutine is re-entered at most once, exactly once when its operation
\* was completed, and only by the bottom-half of its own record, which by
\* then has deleted its handle; a step of the completion callback changes
\* nothing but the result and bottom-half fields of its record and the
\* bottom-half handle, and enters no coroutine.
C4_WakeOnlyByBottomHalf ==
    /\ [](\A i \in Ops :
            /\ Len(enteredBy[i]) <= 1
            /\ \A k \in 1..Len(enteredBy[i]) : enteredBy[i][k] = <<"bottom-half", i>>
            /\ co[i] \in {"resumed", "out", "done"} /\ Submitted(i)
                  => Len(enteredBy[i]) = 1 /\ bhs[i] = "deleted" /\ acb[i].bh = NULL
            /\ co[i] = "resumed" => inBH = i
            /\ \A m \in misuse : m[1] # "enter")
    /\ [][\A i \in Ops :
            Submitted(i) /\ cb'[i] # cb[i] =>
                /\ co' = co /\ hostCo' = hostCo /\ enteredBy' = enteredBy
                /\ \A j \in Ops \ {i} : acb'[j] = acb[j]
                /\ acb'[i] = [acb[i] EXCEPT !.ret = acb'[i].ret,
                                            !.bh = acb'[i].bh]]_vars

\* A completed operation has returned, entered once by its bottom-half.
C4_Witness ==
    \E i \in Ops :
        /\ Returned(i) /\ cb[i] = "returned"
        /\ enteredBy[i] = << <<"bottom-half", i>> >>
        /\ bhs[i] = "deleted"

\* What gluster_finish_aiocb is to make of a completion value.
Classification(r, size) ==
    CASE r = 0 \/ r = size -> 0
      [] r < 0 /\ r # size -> r
      [] OTHER -> -EIO

\* C5: with several operations in flight, each coroutine is entered only by
\* the bottom-half of its own record, reads the result of its own record and
\* only after the callback wrote it, and returns the classification of its
\* own completion value.
C5_NoCrossTalk ==
    \A i \in Ops :
        /\ \A k \in 1..Len(enteredBy[i]) : enteredBy[i][k][2] = i
        /\ readAt[i] \in {NULL, i}
        /\ readAt[i] # NULL =>
              /\ Invoked(i)
              /\ lret[i] = Classification(cret[i], acb[i].size)
        /\ Submitted(i) /\ Returned(i) =>
              retval[i] = Classification(cret[i], acb[i].size)

\* Two operations were in flight together and completed out of submission
\* order, with different results.
C5_Witness ==
    \E i, j \in Ops :
        /\ i < j
        /\ Returned(j) /\ cb[j] = "returned"
        /\ co[i] = "yielded" /\ cb[i] = "returned"
        /\ retval[j] # acb[i].ret

\* ---------------------------------------------- claims on open and create

OpenDone == pc = "done" /\ op = "open"
CreateDone == pc = "done" /\ op = "create"
CallsOf(fn) == {k \in 1..Len(calls) : calls[k].fn = fn}
NumCalls(fn) == Cardinality(CallsOf(fn))

\* C6: when open has returned a failure the instance holds neither the
\* volume handle nor the file handle, and when it has returned success the
\* instance holds both.
C6_OpenAllOrNothing ==
    OpenDone =>
        /\ result # 0 => s.glfs = NULL /\ s.fd = NULL
        /\ result = 0 => s.glfs # NULL /\ s.fd # NULL

\* C7: open returns 0 exactly when qemu_gluster_init returned a volume
\* handle and glfs_open a file handle, and a strictly negative value whenever
\* one of them returned none, whatever errno holds then.
C7_OpenReturnValue ==
    OpenDone =>
        /\ result = 0 <=> (initRet # NULL /\ s.fd # NULL)
        /\ (initRet = NULL \/ s.fd = NULL) => result < 0

\* C8: when qemu_gluster_init has returned after glfs_set_volfile_server,
\* glfs_set_logging or glfs_init failed, it returned NULL, glfs_fini was
\* called exactly once on the handle, and errno is what the failing call left;
\* when no step failed it returned the handle, which is not finalized.
C8_BootstrapTeardown ==
    pc = "init_return" =>
        /\ failStep \in {"glfs_set_volfile_server", "glfs_set_logging",
                         "glfs_init"} =>
              /\ initRet = NULL
              /\ NumCalls("glfs_fini") = 1
              /\ vol = "finalized"
              /\ errno = failErrno
        /\ failStep = "none" =>
              /\ initRet = GLFS
              /\ NumCalls("glfs_fini") = 0
              /\ vol = "live"

\* The connect failed, glfs_fini left another value in errno, and the
\* caller still sees the value glfs_init left.
C8_Witness ==
    /\ pc = "init_return"
    /\ failStep = "glfs_init"
    /\ finiErrno # failErrno
    /\ errno = failErrno
    /\ initRet = NULL

\* C9: when a step of create failed, create returns the negated errno of
\* the first step that failed.
C9_CreateKeepsFirstError ==
    CreateDone /\ failStep # "none" => result = -failErrno

\* C10: when create has returned: the GlusterConf was released once; a
\* volume handle that was created was finalized exactly once, and none was
\* finalized otherwise; a file handle that was created was closed exactly
\* once, before the volume was finalized, and none was closed otherwise.
C10_CreateReleasesAll ==
    CreateDone =>
        /\ gconfFrees = 1
        /\ vol # "none" => NumCalls("glfs_fini") = 1 /\ vol = "finalized"
        /\ vol = "none" => NumCalls("glfs_fini") = 0
        /\ glfs # NULL => calls[Len(calls)].fn = "glfs_fini"
        /\ file # "none" =>
              /\ NumCalls("glfs_close") = 1
              /\ file = "closed"
              /\ \A c \in CallsOf("glfs_close"), f \in CallsOf("glfs_fini") : c < f
        /\ file = "none" => NumCalls("glfs_close") = 0

\* The zero-fill failed; the file was closed, then the volume finalized.
C10_Witness ==
    /\ CreateDone
    /\ failStep = "glfs_zerofill"
    /\ file = "closed"
    /\ vol = "finalized"
    /\ NumCalls("glfs_close") = 1
    /\ NumCalls("glfs_fini") = 1

\* ---------------------------------------------------------------------------
\* Creation: order of the steps, preallocation, size (lines 384-444)
\* ---------------------------------------------------------------------------

\* The place of each library call in the order qemu_gluster_create and
\* qemu_gluster_init make them.
StepRank(fn) ==
    CASE fn = "glfs_new" -> 1
      [] fn = "glfs_set_volfile_server" -> 2
      [] fn = "glfs_set_logging" -> 3
      [] fn = "glfs_init" -> 4
      [] fn = "glfs_creat" -> 5
      [] fn = "glfs_ftruncate" -> 6
      [] fn = "glfs_zerofill" -> 7
      [] fn = "glfs_close" -> 8
      [] fn = "glfs_fini" -> 9
      [] OTHER -> 0

\* The truncate was called and returned 0.
TruncateSucceeded ==
    NumCalls("glfs_ftruncate") = 1 /\ failStep # "glfs_ftruncate"

\* C11: during a create the library calls are made in the order bootstrap,
\* create file, truncate, zero-fill, close file, finalize volume, each at most
\* once; the zero-fill is called exactly when the preallocation option is
\* "full" and the truncate succeeded, and never when the option is "off",
\* has no value or is omitted.
C11_CreateStepOrder ==
    op = "create" =>
        /\ \A i, j \in 1..Len(calls) :
              i < j => StepRank(calls[i].fn) < StepRank(calls[j].fn)
        /\ \A i \in 1..Len(calls) : StepRank(calls[i].fn) > 0
        /\ pc \in {"create_close", "create_out", "done"} =>
              (NumCalls("glfs_zerofill") = 1
                  <=> (options.prealloc = "full" /\ TruncateSucceeded))
        /\ options.prealloc \in {"absent", NoStr, "off"} =>
              NumCalls("glfs_zerofill") = 0
        /\ ~TruncateSucceeded => NumCalls("glfs_zerofill") = 0

\* A create with preallocation "full" that made every step, in order.
C11_Witness ==
    /\ CreateDone
    /\ options.prealloc = "full"
    /\ failStep = "none"
    /\ [i \in 1..Len(calls) |-> calls[i].fn]
          = <<"glfs_new", "glfs_set_volfile_server", "glfs_set_logging",
              "glfs_init", "glfs_creat", "glfs_ftruncate", "glfs_zerofill",
              "glfs_close", "glfs_fini">>

\* The preallocation option create cannot honour: "full" in a build without
\* glfs_zerofill, or a value that is neither "off" nor "full".
BadPrealloc(o) ==
    \/ o.prealloc = "full" /\ ~zerofill
    \/ o.prealloc \notin {"absent", NoStr, "off", "full"}

\* C12: a create whose preallocation option is "full" in a build without
\* zero-fill, or a value other than "off" and "full", returns -EINVAL, calls
\* neither glfs_creat nor any file operation, and finalizes the volume handle
\* it bootstrapped, once.
C12_BadPreallocRejected ==
    (CreateDone /\ initRet # NULL /\ BadPrealloc(options)) =>
        /\ result = -EINVAL
        /\ NumCalls("glfs_creat") = 0
        /\ NumCalls("glfs_ftruncate") = 0
        /\ NumCalls("glfs_zerofill") = 0
        /\ NumCalls("glfs_close") = 0
        /\ file = "none"
        /\ NumCalls("glfs_fini") = 1
        /\ vol = "finalized"

\* Preallocation "full" was asked of a build without zero-fill.
C12_Witness ==
    /\ CreateDone
    /\ initRet # NULL
    /\ options.prealloc = "full"
    /\ ~zerofill
    /\ result = -EINVAL
    /\ vol = "finalized"

\* ---------------------------------------------------------------------------
\* Submission failure (lines 467-470 and 476-477)
\* ---------------------------------------------------------------------------

\* The glfs_*_async call of operation i failed: the operation left through
\* `out` with no request handed to the library.
SubmitFailed(i) == co[i] \in {"out", "done"} /\ cb[i] = "idle"

\* C13: an operation whose submission call fails returns a negative error
\* number, frees its record (once, in the submitter), never yields and is
\* never entered, and no bottom-half is created or scheduled for its record.
C13_SubmitFailureReturn ==
    \A i \in Ops :
        SubmitFailed(i) =>
            /\ bhs[i] = "none"
            /\ acb[i].bh = NULL
            /\ enteredBy[i] = <<>>
            /\ readAt[i] = NULL
            /\ Returned(i) =>
                  /\ retval[i] < 0
                  /\ freedBy[i] = <<"coroutine">>

\* ---------------------------------------------------------------------------
\* The location parser (lines 55-78 and 117-176) and its callers
\* ---------------------------------------------------------------------------

\* qemu_gluster_parseuri rejected the filename of this open or create.
ParseRejected == failStep = "parseuri"

\* C14: when the parser rejects the filename, open and create return -EINVAL
\* and no library call is made: the volume handle is neither created
\* (glfs_new) nor finalized (glfs_fini).
C14_ParseRejectionReturn ==
    ParseRejected =>
        /\ calls = <<>>
        /\ vol = "none"
        /\ file = "none"
        /\ pc = "done" => result = -EINVAL

\* An open whose filename the parser rejected has returned -EINVAL.
C14_Witness ==
    /\ OpenDone
    /\ ParseRejected
    /\ result = -EINVAL
    /\ NumCalls("glfs_new") = 0
    /\ NumCalls("glfs_fini") = 0

\* The run has parsed a location and remembers it.
Parsed == tracing /\ pc \notin {"start", "init_parseuri"}
\* qemu_gluster_parseuri returned 0 for it.
Accepted == Parsed /\ ~ParseRejected
\* qemu_gluster_init holds the GlusterConf the parser filled.
InInit == pc \in {"init_glfs_new", "init_set_volfile_server",
                  "init_set_logging", "init_glfs_init", "init_out",
                  "init_restore", "init_return"}
\* The arguments of the glfs_set_volfile_server calls made so far.
VolfileServers == {calls[k].arg : k \in CallsOf("glfs_set_volfile_server")}

IsUnix(u) == u.parsed /\ u.scheme = "gluster+unix"
IsTcpOrRdma(u) ==
    u.parsed /\ u.scheme \in {NoStr, "gluster", "gluster+tcp", "gluster+rdma"}

\* C15: a location of the unix transport is accepted only if it has no
\* host, no port and exactly one query parameter, named "socket"; with a
\* host, a port, no parameter, several parameters or one parameter of
\* another name it is rejected; and when it is accepted the server of the
\* GlusterConf, which is what glfs_set_volfile_server is given, is the value
\* of that parameter, with port 0.
C15_UnixTransportRule ==
    (Parsed /\ IsUnix(location)) =>
        LET u == location
            WellFormed == /\ u.server = NoStr
                          /\ u.port = 0
                          /\ Len(u.qp) = 1
                          /\ u.qp[1].name = "socket"
        IN  /\ Accepted => WellFormed
            /\ ~WellFormed => ParseRejected
            /\ (Accepted /\ InInit) =>
                  /\ gconf.transport = "unix"
                  /\ gconf.server = u.qp[1].value
                  /\ gconf.port = 0
            /\ Accepted =>
                  VolfileServers \subseteq {<<"unix", u.qp[1].value, 0>>}

\* A unix location was accepted and its socket handed to the library.
C15_Witness ==
    /\ Accepted
    /\ IsUnix(location)
    /\ VolfileServers = {<<"unix", "/tmp/glusterd.socket", 0>>}

\* C16: a location of the tcp or rdma transport (scheme gluster, gluster+tcp,
\* gluster+rdma, or none) that carries a query parameter is rejected; when
\* one is accepted the server of the GlusterConf is the host of the location,
\* or "localhost" when it has none, and the port is the port of the location,
\* 0 when it has none; these are what glfs_set_volfile_server is given.
C16_TcpRdmaRule ==
    (Parsed /\ IsTcpOrRdma(location)) =>
        LET u == location
            server == IF u.server # NoStr THEN u.server ELSE "localhost"
        IN  /\ Len(u.qp) > 0 => ParseRejected
            /\ (Accepted /\ InInit) =>
                  /\ gconf.transport = TransportOf(u.scheme)
                  /\ gconf.transport \in {"tcp", "rdma"}
                  /\ gconf.server = server
                  /\ gconf.port = u.port
            /\ Accepted =>
                  VolfileServers
                      \subseteq {<<TransportOf(u.scheme), server, u.port>>}

\* A location without host and port was accepted and "localhost", port 0,
\* handed to the library.
C16_Witness ==
    /\ Accepted
    /\ IsTcpOrRdma(location)
    /\ location.server = NoStr
    /\ location.port = 0
    /\ VolfileServers = {<<"tcp", "localhost", 0>>}

\* The ways to read path p as slashes, a volume name free of slashes, one or
\* more slashes, and an image that does not start with a slash: <<i, j, k>>
\* with the volume name at i+1..j and the image from k+1.
Decompositions(p) ==
    {d \in (0..Len(p)) \X (0..Len(p)) \X (0..Len(p)) :
        /\ d[1] < d[2] /\ d[2] < d[3] /\ d[3] < Len(p)
        /\ \A x \in 1..d[1] : p[x] = "/"
        /\ \A x \in (d[1] + 1)..d[2] : p[x] # "/"
        /\ \A x \in (d[2] + 1)..d[3] : p[x] = "/"
        /\ p[d[3] + 1] # "/"}

\* C17: for a location of a known transport, the path is accepted exactly
\* when, after its leading slashes, it has a non-empty volume name without
\* slash, then at least one slash, then a non-empty rest; the volume name
\* taken is that name and the image is that rest, which does not start with
\* a slash and keeps its further slashes; a missing path, a path of slashes
\* only, "/vol" and "/vol/" are rejected with EINVAL.
C17_PathDecomposition ==
    (Parsed /\ location.parsed /\ TransportOf(location.scheme) # NoStr) =>
        LET p == location.path
            D == Decompositions(p)
            ok == p # NoPath /\ D # {}
        IN
        /\ ~ok => ParseRejected /\ failErrno = EINVAL
        /\ p \in {NoPath, <<>>, <<"/">>, <<"/", "/">>, <<"/", "a">>,
                  <<"/", "a", "/">>, <<"a">>, <<"a", "/">>} => ParseRejected
        /\ InInit => (gconf.image # <<>> <=> ok)
        /\ (InInit /\ ok) =>
              /\ \E d \in D :
                    /\ gconf.volname = SubSeq(p, d[1] + 1, d[2])
                    /\ gconf.image = SubSeq(p, d[3] + 1, Len(p))
              /\ gconf.volname # <<>>
              /\ \A x \in 1..Len(gconf.volname) : gconf.volname[x] # "/"
              /\ gconf.image # <<>>
              /\ gconf.image[1] # "/"
        /\ (Accepted /\ NumCalls("glfs_new") = 1) =>
              \E d \in D : calls[1].arg = <<SubSeq(p, d[1] + 1, d[2])>>

\* "a/a/" was taken apart into the volume "a" and the image "a/".
C17_Witness ==
    /\ Accepted
    /\ InInit
    /\ location.path = <<"a", "/", "a", "/">>
    /\ gconf.volname = <<"a">>
    /\ gconf.image = <<"a", "/">>

\* ---------------------------------------------------------------------------
\* Close (lines 585-594)
\* ---------------------------------------------------------------------------

\* The names of the library calls qemu_gluster_close has made so far.
CloseCalls ==
    [k \in 1..(Len(calls) - closeFrom) |-> calls[closeFrom + k].fn]

\* C18: qemu_gluster_close closes the file handle, when the instance holds
\* one, before it finalizes the volume handle; it calls glfs_close at most
\* once and glfs_fini exactly once; afterwards no file is left open and the
\* volume is finalized, neither of them twice.
C18_CloseOrder ==
    op = "close" =>
        /\ pc = "close_glfs_close" => CloseCalls = <<>> /\ s.fd # NULL
        /\ pc = "close_glfs_fini" =>
              /\ CloseCalls \in {<<>>, <<"glfs_close">>}
              /\ s.fd = NULL
              /\ file # "open"
        /\ pc = "closed" =>
              /\ CloseCalls \in {<<"glfs_fini">>, <<"glfs_close", "glfs_fini">>}
              /\ s.fd = NULL
              /\ file \in {"none", "closed"}
              /\ file = "closed" <=> CloseCalls[1] = "glfs_close"
              /\ vol \in {"none", "finalized"}
              /\ s.glfs # NULL => vol = "finalized"

\* An instance with both handles was closed: the file, then the volume.
C18_Witness ==
    /\ op = "close"
    /\ pc = "closed"
    /\ CloseCalls = <<"glfs_close", "glfs_fini">>
    /\ file = "closed"
    /\ vol = "finalized"
    /\ NumCalls("glfs_close") = 1
    /\ NumCalls("glfs_fini") = 1

\* ---------------------------------------------------------------------------
\* Create: the size (lines 400-432)
\* ---------------------------------------------------------------------------

\* C19: for every size in bytes asked of create, the file is truncated to
\* exactly that size, and with preallocation "full" the zero-fill covers
\* exactly the bytes from 0 up to that size.
C19_CreateSizeExact ==
    op = "create" =>
        \A k \in 1..Len(calls) :
            /\ calls[k].fn = "glfs_ftruncate" =>
                  calls[k].arg = <<options.size>>
            /\ calls[k].fn = "glfs_zerofill" =>
                  calls[k].arg = <<0, options.size>>

\* ---------------------------------------------------------------------------
\* The callback that overtakes the yield (lines 233-259 and 459-478)
\* ---------------------------------------------------------------------------

\* The callback of operation i was invoked while its coroutine had not yet
\* reached qemu_coroutine_yield.
EarlyCallback(i) == co[i] = "submitted" /\ Invoked(i)

\* C20: while a coroutine has submitted and not yet yielded, the bottom-half
\* of its record does not run, however far the callback has got; the
\* bottom-half starts only when the coroutine is suspended at its yield, and
\* a coroutine is entered only from that yield; and an operation whose
\* callback was invoked before the yield still returns, with the result
\* classified from the completion value.
C20_EarlyCallbackWake ==
    /\ [](\A i \in Ops :
            co[i] = "submitted" =>
                /\ hostCo = i
                /\ inBH # i
                /\ bhs[i] # "deleted"
                /\ enteredBy[i] = <<>>)
    /\ [][\A i \in Ops :
            /\ (bhs[i] = "scheduled" /\ bhs'[i] = "deleted") => co[i] = "yielded"
            /\ (co[i] # "resumed" /\ co'[i] = "resumed") => co[i] = "yielded"]_vars
    /\ \A i \in Ops :
          EarlyCallback(i) ~>
              (Returned(i)
                 /\ retval[i] = Classification(cret[i], acb[i].size))

\* The callback has run to its end, the wake is scheduled, and the coroutine
\* has not yet yielded.
C20_Witness ==
    \E i \in Ops :
        /\ EarlyCallback(i)
        /\ cb[i] = "returned"
        /\ bhs[i] = "scheduled"
        /\ hostCo = i

\* ---------------------------------------------------------------------------
\* Completion values beyond the expected size (lines 245-259, 505-555)
\* ---------------------------------------------------------------------------

\* Operation i was submitted with size 0, as qemu_gluster_co_flush_to_disk
\* (line 512) and qemu_gluster_co_discard (line 540) do.
ZeroSized(i) == Submitted(i) /\ acb[i].size = 0

\* C21: a completion value strictly greater than the record's expected size
\* is classified as -EIO, in acb->ret and in what the operation returns; for
\* an operation submitted with expected size 0 (flush, discard) every
\* positive completion value makes it return -EIO, and it returns 0 exactly
\* when the completion value is 0.
C21_OverrunIsEIO ==
    \A i \in Ops :
        LET r == cret[i]
            size == acb[i].size
        IN  /\ (Invoked(i) /\ acb[i].st = "live" /\ r > size) =>
                  acb[i].ret = -EIO
            /\ (Submitted(i) /\ Returned(i)) =>
                  /\ r > size => retval[i] = -EIO
                  /\ ZeroSized(i) =>
                        /\ r > 0 => retval[i] = -EIO
                        /\ retval[i] = 0 <=> r = 0

\* A flush or discard got the completion value 1 and returned -EIO, and a
\* transfer got one byte more than it expected and returned -EIO.
C21_Witness ==
    \E i, j \in Ops :
        /\ ZeroSized(i) /\ Returned(i)
        /\ cret[i] = 1
        /\ retval[i] = -EIO
        /\ Submitted(j) /\ Returned(j)
        /\ acb[j].size = BDRV_SECTOR_SIZE
        /\ cret[j] = BDRV_SECTOR_SIZE + 1
        /\ retval[j] = -EIO

====
